---------------------------- MODULE Spec2Model ----------------------------
(***************************************************************************)
(* A model of pylcogt/main.py: the console entry point main() of PyLCOGT   *)
(* and its helper get_telescope_info().                                    *)
(*                                                                         *)
(* A run of main is a walk through its statements: discovery of the        *)
(* telescopes in the database, argument parsing, epoch parsing, selection  *)
(* of the reduction stages, the telescope query, the image query, and the  *)
(* loop that constructs and runs each selected stage.                      *)
(*                                                                         *)
(* Representation of strings the code takes apart:                         *)
(*   - a binning / ccdsum string is a sequence of one-character strings    *)
(*     ("2x2" is <<"2","x","2">>), so that str.replace acts on characters; *)
(*   - a --stage string is a sequence of tokens, a token being either the  *)
(*     character "-" or a maximal run of other characters                  *)
(*     ("make_bias-trim" is <<"make_bias","-","trim">>, '' is <<>>);       *)
(*   - an --epoch string is a sequence of day numbers, 0 standing for a    *)
(*     token that is not a calendar date.                                  *)
(***************************************************************************)
EXTENDS Integers, Sequences, FiniteSets

VARIABLES
    pc,              \* the statement of main (or get_telescope_info) to execute next
    cmd_args,        \* the command line given to main
    args,            \* the namespace parse_args returned
    session,         \* state of the two db sessions: "none", "open" or "closed"
    queries,         \* number of queries issued on each session
    all_values,      \* all_sites, all_instruments, all_telescope_ids, all_camera_types
    epoch_list,      \* result of date_utils.parse_epoch_string
    stages_to_do,    \* the selected stage names
    telescope_query, \* the conjunction built over dbs.Telescope
    telescope_list,  \* the telescopes the query returned
    image_query,     \* the conjunction built over dbs.Image
    i,               \* position of the stage loop in stages_to_do
    trace,           \* what main did to the stage processors, in order
    error            \* the exception that ended the run, if any

vars == <<pc, cmd_args, args, session, queries, all_values, epoch_list, stages_to_do,
          telescope_query, telescope_list, image_query, i, trace, error>>

----------------------------------------------------------------------------
(* Bounds *)

\* Days an epoch expression may name are 1..MaxDay.
MaxDay == 2

----------------------------------------------------------------------------
(* The stage registry *)

\* The registry with trim registered before subtract_bias.
reduction_stages_swapped ==
    <<"ingest", "make_bias", "trim", "subtract_bias", "make_dark", "subtract_dark",
      "make_flat", "divide_flat", "solve_wcs", "make_catalog">>

\* The keys of the OrderedDict reduction_stages, in insertion order.
reduction_stages ==
    <<"ingest", "make_bias", "subtract_bias", "trim", "make_dark", "subtract_dark",
      "make_flat", "divide_flat", "solve_wcs", "make_catalog">>

StageNames == {reduction_stages[k] : k \in 1..Len(reduction_stages)}

----------------------------------------------------------------------------
(* The database *)

\* Rows of dbs.Telescope.
Telescopes ==
    { [telescope_id |-> "1m0-009", site |-> "lsc", instrument |-> "kb78", camera_type |-> "SBig"],
      [telescope_id |-> "1m0-010", site |-> "elp", instrument |-> "kb74", camera_type |-> "SBig"],
      [telescope_id |-> "1m0-005", site |-> "lsc", instrument |-> "fl03", camera_type |-> "Sinistro"] }

\* Rows of dbs.Image, as far as the image query reads them.
ImageFilters == {"rp", "V"}
ImageCcdsums == {<<"1", " ", "1">>, <<"2", " ", "2">>}
ImageTypes == {"BIAS", "DARK"}
Images == [filter_name : ImageFilters, ccdsum : ImageCcdsums, image_type : ImageTypes]

\* The columns get_telescope_info asks for, in the order of its four loops.
DiscoveryColumns == <<"site", "instrument", "telescope_id", "camera_type">>

\* db_session.query(column).distinct()
Distinct(column) == {t[column] : t \in Telescopes}

----------------------------------------------------------------------------
(* Predicates: sqlalchemy expressions built with &= from true() *)

\* sqlalchemy.sql.expression.true()
TrueQuery == <<>>

\* query &= (column == value)
AndEquals(query, column, value) == Append(query, [column |-> column, value |-> value])

\* Whether a row satisfies a built expression.
Matches(query, row) == \A k \in 1..Len(query) : row[query[k].column] = query[k].value

\* db_session.query(dbs.Telescope).filter(query).all()
FilterAll(query) == {t \in Telescopes : Matches(query, t)}

\* str.replace(old, new) for one-character old and new.
Replace(s, old, new) == [k \in 1..Len(s) |-> IF s[k] = old THEN new ELSE s[k]]

----------------------------------------------------------------------------
(* Exceptions *)

NoStage == ""
NoError == [kind |-> "", stage |-> NoStage]

\* An exception as raised: nothing in main attaches a stage name to it.
Raise(kind) == [kind |-> kind, stage |-> NoStage]

\* The loop wrapping what a stage raises in an error that names the stage.
PropagateWrapped(e, stage) == [kind |-> "StageExecutionError", stage |-> stage]

\* What leaves the loop of main when a stage raises e: there is no try/except.
Propagate(e, stage) == e

\* Exceptions a stage processor may raise (implementation defined).
StageErrors == {"IOError", "ValueError"}


----------------------------------------------------------------------------
(* The statements of main, in order *)

\* main parsing the epoch only after its session is closed.
MainOrderEpochLate ==
    <<"get_telescope_info", "parse_args", "select_stages",
      "get_session", "telescope_query", "query_telescopes", "image_query",
      "close_session", "parse_epoch_string", "dispatch", "stop_logging">>

\* The order in which main executes its steps.
MainOrder ==
    <<"get_telescope_info", "parse_args", "parse_epoch_string", "select_stages",
      "get_session", "telescope_query", "query_telescopes", "image_query",
      "close_session", "dispatch", "stop_logging">>

\* The step after `step`, "done" after the last.
After(step) ==
    LET k == CHOOSE n \in 1..Len(MainOrder) : MainOrder[n] = step
    IN  IF k = Len(MainOrder) THEN "done" ELSE MainOrder[k + 1]

----------------------------------------------------------------------------
(* Argument parsing *)

NoBinning == <<>>
NoStageSpec == <<>>

\* choices= of --filter, --binning and --image-type.
FilterChoices ==
    {"sloan", "landolt", "apass", "up", "gp", "rp", "ip", "zs", "U", "B", "V", "R", "I"}
BinningChoices == {<<"1", "x", "1">>, <<"2", "x", "2">>}
ImageTypeChoices == {"BIAS", "DARK", "SKYFLAT", "EXPOSE"}

\* --stage declared without choices.
StageChoiceAny(stage) == TRUE

\* choices=reduction_stages.keys(): the string is one of the keys. No key holds a
\* "-", so a string that is a key is a single token.
StageChoiceOk(stage) == Len(stage) = 1 /\ stage[1] \in StageNames

\* What parse_args accepts: an option left out keeps its default ('' is not checked
\* against choices), an option given must be one of its choices.
ArgsAccepted(a, choices) ==
    /\ a.telescope = "" \/ a.telescope \in choices["telescope_id"]
    /\ a.instrument = "" \/ a.instrument \in choices["instrument"]
    /\ a.site = "" \/ a.site \in choices["site"]
    /\ a.camera_type = "" \/ a.camera_type \in choices["camera_type"]
    /\ a.stage = NoStageSpec \/ StageChoiceOk(a.stage)
    /\ a.filter = "" \/ a.filter \in FilterChoices
    /\ a.binning = NoBinning \/ a.binning \in BinningChoices
    /\ a.image_type = "" \/ a.image_type \in ImageTypeChoices

----------------------------------------------------------------------------
(* Epoch parsing: date_utils.parse_epoch_string *)

\* A single day, or a first and a last day; fails on a token that is no date and
\* on a first day after the last.
ParseEpochString(e) ==
    IF Len(e) = 1 /\ e[1] >= 1
    THEN [ok |-> TRUE, value |-> <<e[1]>>]
    ELSE IF Len(e) = 2 /\ e[1] >= 1 /\ e[2] >= 1 /\ e[1] <= e[2]
    THEN [ok |-> TRUE, value |-> [k \in 1..(e[2] - e[1] + 1) |-> e[1] + k - 1]]
    ELSE [ok |-> FALSE, value |-> <<>>]

----------------------------------------------------------------------------
(* Stage selection *)

\* '-' in args.stage
HasDash(stage) == \E k \in 1..Len(stage) : stage[k] = "-"

\* args.stage.split('-'): the strings between the dashes, '' where two dashes (or
\* a dash and an end of the string) meet.
RECURSIVE SplitFrom(_, _, _, _)
SplitFrom(stage, k, cur, acc) ==
    IF k > Len(stage) THEN Append(acc, cur)
    ELSE IF stage[k] = "-" THEN SplitFrom(stage, k + 1, "", Append(acc, cur))
    ELSE SplitFrom(stage, k + 1, stage[k], acc)

Split(stage) == SplitFrom(stage, 1, "", <<>>)

\* The if/else that computes stages_to_do. With a dash: the unpacking of split's
\* result needs exactly two strings (ValueError otherwise), and the slice bound
\* ending_stage + 1 adds an int to a str (TypeError).
SelectStages(stage) ==
    IF stage # NoStageSpec
    THEN IF HasDash(stage)
         THEN IF Len(Split(stage)) # 2
              THEN [ok |-> FALSE, value |-> <<>>, error |-> "ValueError"]
              ELSE [ok |-> FALSE, value |-> <<>>, error |-> "TypeError"]
         ELSE [ok |-> TRUE, value |-> <<stage[1]>>, error |-> ""]
    ELSE [ok |-> TRUE, value |-> reduction_stages, error |-> ""]

----------------------------------------------------------------------------
(* The queries main builds *)

\* telescope_query without the if on camera_type.
TelescopeQueryNoCamera(a) ==
    LET q0 == TrueQuery
        q1 == IF a.site # "" THEN AndEquals(q0, "site", a.site) ELSE q0
        q2 == IF a.instrument # "" THEN AndEquals(q1, "instrument", a.instrument) ELSE q1
        q3 == IF a.telescope # "" THEN AndEquals(q2, "telescope_id", a.telescope) ELSE q2
    IN  q3

\* telescope_query after the four ifs on site, instrument, telescope, camera_type.
TelescopeQuery(a) ==
    LET q0 == TrueQuery
        q1 == IF a.site # "" THEN AndEquals(q0, "site", a.site) ELSE q0
        q2 == IF a.instrument # "" THEN AndEquals(q1, "instrument", a.instrument) ELSE q1
        q3 == IF a.telescope # "" THEN AndEquals(q2, "telescope_id", a.telescope) ELSE q2
        q4 == IF a.camera_type # "" THEN AndEquals(q3, "camera_type", a.camera_type) ELSE q3
    IN  q4

\* replace called with its two arguments exchanged.
CcdsumSwapped(binning) == Replace(binning, " ", "x")

\* ccdsum = args.binning.replace('x', ' ')
Ccdsum(binning) == Replace(binning, "x", " ")

\* image_query after the two ifs on filter and binning. args.image_type is not read.
ImageQuery(a) ==
    LET q0 == TrueQuery
        q1 == IF a.filter # "" THEN AndEquals(q0, "filter_name", a.filter) ELSE q0
        q2 == IF a.binning # NoBinning THEN AndEquals(q1, "ccdsum", Ccdsum(a.binning)) ELSE q1
    IN  q2

----------------------------------------------------------------------------
(* Command lines *)

DefaultArgs ==
    [epoch |-> <<1>>, telescope |-> "", instrument |-> "", site |-> "", camera_type |-> "",
     stage |-> NoStageSpec, filter |-> "", binning |-> NoBinning, image_type |-> ""]

\* Every setting of the seven selection criteria to '' or to a choice, with one stage.
CriteriaArgs ==
    { [DefaultArgs EXCEPT !.site = s, !.instrument = n, !.telescope = t, !.camera_type = c,
                          !.filter = f, !.binning = b, !.image_type = y,
                          !.stage = <<"trim">>] :
        s \in {""} \cup Distinct("site"), n \in {""} \cup Distinct("instrument"),
        t \in {""} \cup Distinct("telescope_id"), c \in {""} \cup Distinct("camera_type"),
        f \in {""} \cup ImageFilters, b \in {NoBinning} \cup BinningChoices,
        y \in {""} \cup ImageTypes }

\* Values that are not among the choices of their option.
RejectedArgs ==
    { [DefaultArgs EXCEPT !.site = "xxx"], [DefaultArgs EXCEPT !.instrument = "xxx"],
      [DefaultArgs EXCEPT !.telescope = "xxx"], [DefaultArgs EXCEPT !.camera_type = "xxx"],
      [DefaultArgs EXCEPT !.filter = "xxx"], [DefaultArgs EXCEPT !.image_type = "xxx"],
      [DefaultArgs EXCEPT !.binning = <<"3", "x", "3">>],
      [DefaultArgs EXCEPT !.binning = <<"2", " ", "2">>] }

\* --stage strings: '', a name, "start-end", and strings with other numbers of dashes.
SpecNames == StageNames \cup {"unknown_stage"}
StageSpecs ==
    {NoStageSpec} \cup {<<n>> : n \in SpecNames}
        \cup {<<a, "-", b>> : a \in SpecNames, b \in SpecNames}
        \cup {<<"trim", "-">>, <<"ingest", "-", "trim", "-", "make_dark">>}

\* --epoch strings: one day or two, each a day of 1..MaxDay or no date at all (0).
EpochExprs == {<<d>> : d \in 0..MaxDay} \cup {<<d, e>> : d \in 0..MaxDay, e \in 0..MaxDay}

\* Every stage string with every epoch string, for two settings of the criteria.
StageArgs ==
    { [a EXCEPT !.stage = s, !.epoch = e] :
        a \in {DefaultArgs, [DefaultArgs EXCEPT !.site = "lsc", !.binning = <<"2", "x", "2">>]},
        s \in StageSpecs, e \in EpochExprs }

CmdArgs == CriteriaArgs \cup RejectedArgs \cup StageArgs

----------------------------------------------------------------------------
(* The run *)

NoChoices == [c \in {"site", "instrument", "telescope_id", "camera_type"} |-> {}]

Init ==
    /\ pc = "get_telescope_info"
    /\ cmd_args \in CmdArgs
    /\ args = DefaultArgs
    /\ session = [discovery |-> "none", main |-> "none"]
    /\ queries = [discovery |-> 0, main |-> 0]
    /\ all_values = NoChoices
    /\ epoch_list = <<>>
    /\ stages_to_do = <<>>
    /\ telescope_query = TrueQuery
    /\ telescope_list = {}
    /\ image_query = TrueQuery
    /\ i = 1
    /\ trace = <<>>
    /\ error = NoError

\* The run ends with exception e.
Fail(e) == pc' = "failed" /\ error' = e

\* get_telescope_info: db_session = dbs.get_session()
DiscoveryGetSession ==
    /\ pc = "get_telescope_info"
    /\ session' = [session EXCEPT !.discovery = "open"]
    /\ pc' = "discovery_query"
    /\ UNCHANGED <<cmd_args, args, queries, all_values, epoch_list, stages_to_do,
                   telescope_query, telescope_list, image_query, i, trace, error>>

\* get_telescope_info: one of the four loops over query(column).distinct().
DiscoveryQuery ==
    /\ pc = "discovery_query"
    /\ queries.discovery < Len(DiscoveryColumns)
    /\ LET column == DiscoveryColumns[queries.discovery + 1]
       IN  all_values' = [all_values EXCEPT ![column] = Distinct(column)]
    /\ queries' = [queries EXCEPT !.discovery = @ + 1]
    /\ UNCHANGED <<pc, cmd_args, args, session, epoch_list, stages_to_do,
                   telescope_query, telescope_list, image_query, i, trace, error>>

\* get_telescope_info: a query raises; nothing catches it, db_session.close() is skipped.
DiscoveryQueryRaises ==
    /\ pc = "discovery_query"
    /\ queries.discovery < Len(DiscoveryColumns)
    /\ queries' = [queries EXCEPT !.discovery = @ + 1]
    /\ Fail(Raise("StoreError"))
    /\ UNCHANGED <<cmd_args, args, session, all_values, epoch_list, stages_to_do,
                   telescope_query, telescope_list, image_query, i, trace>>

\* get_telescope_info: db_session.close() and return.
DiscoveryClose ==
    /\ pc = "discovery_query"
    /\ queries.discovery = Len(DiscoveryColumns)
    /\ session' = [session EXCEPT !.discovery = "closed"]
    /\ pc' = After("get_telescope_info")
    /\ UNCHANGED <<cmd_args, args, queries, all_values, epoch_list, stages_to_do,
                   telescope_query, telescope_list, image_query, i, trace, error>>

\* args = parser.parse_args(cmd_args): parser.error() exits with SystemExit.
ParseArgs ==
    /\ pc = "parse_args"
    /\ IF ArgsAccepted(cmd_args, all_values)
       THEN args' = cmd_args /\ pc' = After("parse_args") /\ error' = error
       ELSE args' = args /\ Fail(Raise("SystemExit"))
    /\ UNCHANGED <<cmd_args, session, queries, all_values, epoch_list, stages_to_do,
                   telescope_query, telescope_list, image_query, i, trace>>

\* epoch_list = date_utils.parse_epoch_string(args.epoch)
ParseEpoch ==
    /\ pc = "parse_epoch_string"
    /\ LET r == ParseEpochString(args.epoch)
       IN  IF r.ok
           THEN epoch_list' = r.value /\ pc' = After("parse_epoch_string") /\ error' = error
           ELSE epoch_list' = epoch_list /\ Fail(Raise("InvalidEpochError"))
    /\ UNCHANGED <<cmd_args, args, session, queries, all_values, stages_to_do,
                   telescope_query, telescope_list, image_query, i, trace>>

\* The computation of stages_to_do.
Select ==
    /\ pc = "select_stages"
    /\ LET r == SelectStages(args.stage)
       IN  IF r.ok
           THEN stages_to_do' = r.value /\ pc' = After("select_stages") /\ error' = error
           ELSE stages_to_do' = stages_to_do /\ Fail(Raise(r.error))
    /\ UNCHANGED <<cmd_args, args, session, queries, all_values, epoch_list,
                   telescope_query, telescope_list, image_query, i, trace>>

\* main: db_session = dbs.get_session()
GetSession ==
    /\ pc = "get_session"
    /\ session' = [session EXCEPT !.main = "open"]
    /\ pc' = After("get_session")
    /\ UNCHANGED <<cmd_args, args, queries, all_values, epoch_list, stages_to_do,
                   telescope_query, telescope_list, image_query, i, trace, error>>

\* The construction of telescope_query.
BuildTelescopeQuery ==
    /\ pc = "telescope_query"
    /\ telescope_query' = TelescopeQuery(args)
    /\ pc' = After("telescope_query")
    /\ UNCHANGED <<cmd_args, args, session, queries, all_values, epoch_list, stages_to_do,
                   telescope_list, image_query, i, trace, error>>

\* telescope_list = db_session.query(dbs.Telescope).filter(telescope_query).all()
QueryTelescopes ==
    /\ pc = "query_telescopes"
    /\ telescope_list' = FilterAll(telescope_query)
    /\ queries' = [queries EXCEPT !.main = @ + 1]
    /\ pc' = After("query_telescopes")
    /\ UNCHANGED <<cmd_args, args, session, all_values, epoch_list, stages_to_do,
                   telescope_query, image_query, i, trace, error>>

\* The telescope query raises; nothing catches it, db_session.close() is skipped.
QueryTelescopesRaises ==
    /\ pc = "query_telescopes"
    /\ queries' = [queries EXCEPT !.main = @ + 1]
    /\ Fail(Raise("StoreError"))
    /\ UNCHANGED <<cmd_args, args, session, all_values, epoch_list, stages_to_do,
                   telescope_query, telescope_list, image_query, i, trace>>

\* The construction of image_query.
BuildImageQuery ==
    /\ pc = "image_query"
    /\ image_query' = ImageQuery(args)
    /\ pc' = After("image_query")
    /\ UNCHANGED <<cmd_args, args, session, queries, all_values, epoch_list, stages_to_do,
                   telescope_query, telescope_list, i, trace, error>>

\* main: db_session.close()
CloseSession ==
    /\ pc = "close_session"
    /\ session' = [session EXCEPT !.main = "closed"]
    /\ pc' = After("close_session")
    /\ UNCHANGED <<cmd_args, args, queries, all_values, epoch_list, stages_to_do,
                   telescope_query, telescope_list, image_query, i, trace, error>>

Event(op, stage) == [op |-> op, stage |-> stage]

\* stage_to_run = reduction_stages[stage](raw_path, processed_path, image_query):
\* the lookup of a name that is no key raises KeyError, else the constructor returns.
Construct ==
    /\ pc = "dispatch"
    /\ i <= Len(stages_to_do)
    /\ IF stages_to_do[i] \in StageNames
       THEN /\ trace' = Append(trace, Event("init", stages_to_do[i]))
            /\ pc' = "run"
            /\ error' = error
       ELSE /\ trace' = trace
            /\ Fail(Raise("KeyError"))
    /\ UNCHANGED <<cmd_args, args, session, queries, all_values, epoch_list, stages_to_do,
                   telescope_query, telescope_list, image_query, i>>

\* The constructor of the stage raises.
ConstructRaises ==
    /\ pc = "dispatch"
    /\ i <= Len(stages_to_do)
    /\ stages_to_do[i] \in StageNames
    /\ \E e \in StageErrors :
        /\ trace' = Append(trace, Event("init_raise", stages_to_do[i]))
        /\ Fail(Propagate(Raise(e), stages_to_do[i]))
    /\ UNCHANGED <<cmd_args, args, session, queries, all_values, epoch_list, stages_to_do,
                   telescope_query, telescope_list, image_query, i>>

\* stage_to_run.run(epoch_list, telescope_list) is called.
RunCall ==
    /\ pc = "run"
    /\ trace' = Append(trace, Event("run", stages_to_do[i]))
    /\ pc' = "running"
    /\ UNCHANGED <<cmd_args, args, session, queries, all_values, epoch_list, stages_to_do,
                   telescope_query, telescope_list, image_query, i, error>>

\* run returns: the loop moves to the next stage.
RunReturns ==
    /\ pc = "running"
    /\ trace' = Append(trace, Event("return", stages_to_do[i]))
    /\ i' = i + 1
    /\ pc' = "dispatch"
    /\ UNCHANGED <<cmd_args, args, session, queries, all_values, epoch_list, stages_to_do,
                   telescope_query, telescope_list, image_query, error>>

\* The loop catching what run raises and going on with the next stage.
RunRaisesSwallowed ==
    /\ pc = "running"
    /\ trace' = Append(trace, Event("run_raise", stages_to_do[i]))
    /\ i' = i + 1
    /\ pc' = "dispatch"
    /\ UNCHANGED <<cmd_args, args, session, queries, all_values, epoch_list, stages_to_do,
                   telescope_query, telescope_list, image_query, error>>

\* run raises.
RunRaises ==
    /\ pc = "running"
    /\ \E e \in StageErrors :
        /\ trace' = Append(trace, Event("run_raise", stages_to_do[i]))
        /\ Fail(Propagate(Raise(e), stages_to_do[i]))
    /\ UNCHANGED <<cmd_args, args, session, queries, all_values, epoch_list, stages_to_do,
                   telescope_query, telescope_list, image_query, i>>

\* The for loop is exhausted.
LoopExit ==
    /\ pc = "dispatch"
    /\ i > Len(stages_to_do)
    /\ pc' = After("dispatch")
    /\ UNCHANGED <<cmd_args, args, session, queries, all_values, epoch_list, stages_to_do,
                   telescope_query, telescope_list, image_query, i, trace, error>>

\* logs.stop_logging(); main returns.
StopLogging ==
    /\ pc = "stop_logging"
    /\ pc' = After("stop_logging")
    /\ UNCHANGED <<cmd_args, args, session, queries, all_values, epoch_list, stages_to_do,
                   telescope_query, telescope_list, image_query, i, trace, error>>

Next ==
    \/ DiscoveryGetSession
    \/ DiscoveryQuery
    \/ DiscoveryQueryRaises
    \/ DiscoveryClose
    \/ ParseArgs
    \/ ParseEpoch
    \/ Select
    \/ GetSession
    \/ BuildTelescopeQuery
    \/ QueryTelescopes
    \/ QueryTelescopesRaises
    \/ BuildImageQuery
    \/ CloseSession
    \/ Construct
    \/ ConstructRaises
    \/ RunCall
    \/ RunReturns
    \/ RunRaises
    \/ LoopExit
    \/ StopLogging

Spec == Init /\ [][Next]_vars

----------------------------------------------------------------------------
(* Vocabulary of the properties *)

IndexOf(name) == CHOOSE k \in 1..Len(reduction_stages) : reduction_stages[k] = name

\* "start-end" with both names registered.
IsRegisteredRange(stage) ==
    Len(stage) = 3 /\ stage[2] = "-" /\ stage[1] \in StageNames /\ stage[3] \in StageNames

\* "start-end" with start at or before end in registry order.
IsOrderedRange(stage) ==
    IsRegisteredRange(stage) /\ IndexOf(stage[1]) <= IndexOf(stage[3])

\* "start-end" with start after end in registry order.
IsInvertedRange(stage) ==
    IsRegisteredRange(stage) /\ IndexOf(stage[1]) > IndexOf(stage[3])

\* A name, or "start-end", in which some name is not registered.
NamesUnknownStage(stage) ==
    \/ Len(stage) = 1 /\ stage[1] \notin StageNames
    \/ Len(stage) = 3 /\ stage[2] = "-" /\ (stage[1] \notin StageNames \/ stage[3] \notin StageNames)

\* The steps of main at which the stage loop has been entered or left.
DispatchSteps == {"dispatch", "run", "running", "stop_logging", "done"}

\* The run is over.
Ended == pc \in {"done", "failed"}

\* What main does to the stages of a list when none raises.
Ops == <<"init", "run", "return">>
TraceOf(stages) ==
    [k \in 1..(3 * Len(stages)) |-> Event(Ops[((k - 1) % 3) + 1], stages[((k - 1) \div 3) + 1])]

IsPrefix(s, t) == Len(s) <= Len(t) /\ SubSeq(t, 1, Len(s)) = s

Count(op, stage) == Cardinality({k \in 1..Len(trace) : trace[k] = Event(op, stage)})

\* The run ended because a constructor or a run call raised.
StageFailed ==
    pc = "failed" /\ Len(trace) > 0 /\ trace[Len(trace)].op \in {"init_raise", "run_raise"}

\* telescope_list holds the result of the telescope query.
TelescopesQueried == queries.main = 1 /\ error.kind # "StoreError"

\* image_query holds the expression handed to the stages.
ImageQueryBuilt ==
    TelescopesQueried /\ pc \notin {"query_telescopes", "image_query"}

----------------------------------------------------------------------------
(* C1 *)

\* C1: for every "start-end" with both names registered and start at or before end,
\* the run does not fail on the stage string, and the stages selected and dispatched
\* are the registry's entries from start through end, in registry order.
C1_RangeSelectsSubsequence ==
    IsOrderedRange(cmd_args.stage) =>
        LET expected == SubSeq(reduction_stages, IndexOf(cmd_args.stage[1]),
                               IndexOf(cmd_args.stage[3]))
        IN  /\ error.kind \notin {"SystemExit", "TypeError", "ValueError", "KeyError"}
            /\ pc \in DispatchSteps => stages_to_do = expected
            /\ pc = "done" => trace = TraceOf(expected)

----------------------------------------------------------------------------
(* C2 *)

\* C2: when stage K of the selected stages raises from its constructor or its run
\* call, each of the stages 1..K-1 has been constructed once, run once and has
\* returned once, no stage after K appears in what main did, the run has ended with
\* the stage's error, and main takes no further step.
C2_AbortProperty ==
    StageFailed =>
        /\ i \in 1..Len(stages_to_do)
        /\ trace[Len(trace)].stage = stages_to_do[i]
        /\ \A k \in 1..(i - 1) :
            /\ Count("init", stages_to_do[k]) = 1
            /\ Count("run", stages_to_do[k]) = 1
            /\ Count("return", stages_to_do[k]) = 1
            /\ Count("init_raise", stages_to_do[k]) = 0
            /\ Count("run_raise", stages_to_do[k]) = 0
        /\ \A k \in (i + 1)..Len(stages_to_do) :
            \A n \in 1..Len(trace) : trace[n].stage # stages_to_do[k]
        /\ error.kind \in StageErrors
        /\ ~ ENABLED Next

\* The third of several stages raises from its run call.
C2_Witness ==
    /\ StageFailed
    /\ i = 3
    /\ Len(stages_to_do) > 3
    /\ trace[Len(trace)].op = "run_raise"

----------------------------------------------------------------------------
(* C3 *)

C3_DocumentedOrder ==
    <<"ingest", "make_bias", "subtract_bias", "trim", "make_dark", "subtract_dark",
      "make_flat", "divide_flat", "solve_wcs", "make_catalog">>

C3_Selected(stage) ==
    IF stage = NoStageSpec THEN C3_DocumentedOrder
    ELSE SelectSeq(C3_DocumentedOrder, LAMBDA n : n = stage[1])

\* C3: while no stage has failed, what main has done to the stages is a prefix of
\* construct, run, return for each selected stage in the documented registry order
\* (so no stage is constructed before the run of the one before has returned), and
\* all of it once main is done; an empty stage string selects the ten stages and a
\* single name selects that stage alone.
C3_RegistryOrder ==
    (pc \in DispatchSteps /\ error = NoError) =>
        /\ stages_to_do = C3_Selected(args.stage)
        /\ IsPrefix(trace, TraceOf(C3_Selected(args.stage)))
        /\ pc \in {"stop_logging", "done"} => trace = TraceOf(C3_Selected(args.stage))

\* The whole pipeline has run.
C3_Witness ==
    /\ pc = "done"
    /\ args.stage = NoStageSpec
    /\ Len(trace) = 30

----------------------------------------------------------------------------
(* C4 *)

\* C4 as stated: a stage string that names an unregistered stage ends the run with
\* UnknownStageError, one whose start comes after its end with InvalidRangeError,
\* and no stage processor has been constructed or run.
C4_NamedStageErrors ==
    /\ (NamesUnknownStage(cmd_args.stage) \/ IsInvertedRange(cmd_args.stage)) =>
            (trace = <<>> /\ pc \notin DispatchSteps)
    /\ (pc = "failed" /\ error.kind # "StoreError" /\ NamesUnknownStage(cmd_args.stage)) =>
            error.kind = "UnknownStageError"
    /\ (pc = "failed" /\ error.kind # "StoreError" /\ IsInvertedRange(cmd_args.stage)) =>
            error.kind = "InvalidRangeError"

\* C4 as amended: a stage string that names an unregistered stage, or whose start
\* comes after its end, gets no further than parse_args: once get_telescope_info has
\* returned, the run is at parse_args or has ended there with SystemExit, the same
\* error in both cases, and no stage processor has been constructed or run.
C4_RejectedByParseArgs ==
    (NamesUnknownStage(cmd_args.stage) \/ IsInvertedRange(cmd_args.stage)) =>
        /\ trace = <<>>
        /\ pc \in {"get_telescope_info", "discovery_query", "parse_args", "failed"}
        /\ (pc = "failed" /\ session.discovery = "closed") => error = Raise("SystemExit")
        /\ (pc = "failed" /\ session.discovery # "closed") => error = Raise("StoreError")

\* An inverted range has been rejected.
C4_Witness ==
    /\ pc = "failed"
    /\ cmd_args.stage = <<"trim", "-", "make_bias">>
    /\ error.kind = "SystemExit"
    /\ trace = <<>>

----------------------------------------------------------------------------
(* C5 *)

\* C5: the telescope set handed to the stages holds a telescope of the store iff
\* every criterion that is set equals the telescope's field; with the four criteria
\* unset it is every telescope of the store.
C5_TelescopeSet ==
    TelescopesQueried =>
        /\ \A t \in Telescopes :
            t \in telescope_list <=>
                /\ args.site = "" \/ t.site = args.site
                /\ args.instrument = "" \/ t.instrument = args.instrument
                /\ args.telescope = "" \/ t.telescope_id = args.telescope
                /\ args.camera_type = "" \/ t.camera_type = args.camera_type
        /\ telescope_list \subseteq Telescopes
        /\ (args.site = "" /\ args.instrument = "" /\ args.telescope = ""
                /\ args.camera_type = "") => telescope_list = Telescopes

\* A stage is run with the one telescope that two criteria leave.
C5_Witness ==
    /\ pc = "running"
    /\ args.site = "lsc"
    /\ args.camera_type = "Sinistro"
    /\ args.instrument = ""
    /\ Cardinality(telescope_list) = 1

----------------------------------------------------------------------------
(* C6 *)

C6_Native(binning) ==
    IF binning = <<"1", "x", "1">> THEN <<"1", " ", "1">> ELSE <<"2", " ", "2">>

\* C6: the image query handed to the stages matches an image iff each of filter,
\* binning and image type that is set equals the image's field; so with image type
\* set to T it matches no image of another type.
C6_ImageQueryConstrainsAll ==
    ImageQueryBuilt =>
        \A img \in Images :
            Matches(image_query, img) <=>
                /\ args.filter = "" \/ img.filter_name = args.filter
                /\ args.binning = NoBinning \/ img.ccdsum = C6_Native(args.binning)
                /\ args.image_type = "" \/ img.image_type = args.image_type

----------------------------------------------------------------------------
(* C7 *)

\* C7: no session is open when stage dispatch begins or goes on, nor when the run
\* has ended, whether the queries returned or raised.
C7_SessionsClosed ==
    (pc \in DispatchSteps \/ Ended) =>
        (session.discovery # "open" /\ session.main # "open")

----------------------------------------------------------------------------
(* C8 *)

\* C8 as stated: when the run fails on the epoch expression, no session has been
\* opened and no query has been issued.
C8_EpochBeforeStore ==
    (pc = "failed" /\ error.kind = "InvalidEpochError") =>
        /\ session.discovery = "none" /\ session.main = "none"
        /\ queries.discovery = 0 /\ queries.main = 0

\* C8 as amended: when the run fails on the epoch expression, get_telescope_info has
\* opened its session, issued its four queries and closed it, while the session of
\* main has not been opened, the telescope query has not been issued and no stage
\* has been constructed.
C8_EpochBeforeTelescopeQuery ==
    (pc = "failed" /\ error.kind = "InvalidEpochError") =>
        /\ session.discovery = "closed" /\ queries.discovery = 4
        /\ session.main = "none" /\ queries.main = 0
        /\ trace = <<>>

\* The run failed on an inverted pair of days.
C8_Witness ==
    /\ pc = "failed"
    /\ error.kind = "InvalidEpochError"
    /\ cmd_args.epoch = <<2, 1>>

----------------------------------------------------------------------------
(* C9 *)

\* C9 as stated: when a stage fails, the error that leaves main is a
\* StageExecutionError that carries the name of the failing stage, and the stage
\* has not been tried again.
C9_WrappedWithStageName ==
    StageFailed =>
        /\ error.kind = "StageExecutionError"
        /\ error.stage = trace[Len(trace)].stage
        /\ Count("init", trace[Len(trace)].stage) + Count("init_raise", trace[Len(trace)].stage) = 1

\* C9 as amended: when a stage fails, the error that leaves main is the error the
\* stage raised, as raised: its kind is the stage's, main has attached no stage name
\* to it, and the stage has been constructed once and run at most once.
C9_RawErrorPropagates ==
    StageFailed =>
        /\ error.kind \in StageErrors
        /\ error.stage = NoStage
        /\ Count("init", trace[Len(trace)].stage) + Count("init_raise", trace[Len(trace)].stage) = 1
        /\ Count("run", trace[Len(trace)].stage) <= 1
        /\ Count("run_raise", trace[Len(trace)].stage) <= 1

\* The run of trim raised IOError.
C9_Witness ==
    /\ StageFailed
    /\ trace[Len(trace)] = Event("run_raise", "trim")
    /\ error.kind = "IOError"

----------------------------------------------------------------------------
(* C10 *)

\* C10: the ccdsum computed from a binning "AxA" is "A A", differs from that of the
\* other binning, and is left unchanged by a second normalization; the image query
\* then matches only images whose ccdsum is "A A", and all of them when binning is
\* the only image criterion in it.
C10_BinningNormalization ==
    (ImageQueryBuilt /\ args.binning # NoBinning) =>
        LET native == Ccdsum(args.binning)
        IN  /\ args.binning = <<"1", "x", "1">> => native = <<"1", " ", "1">>
            /\ args.binning = <<"2", "x", "2">> => native = <<"2", " ", "2">>
            /\ \A b \in BinningChoices : b # args.binning => Ccdsum(b) # native
            /\ Ccdsum(native) = native
            /\ \A img \in Images :
                Matches(image_query, img) => img.ccdsum = <<args.binning[1], " ", args.binning[3]>>
            /\ args.filter = "" =>
                \A img \in Images :
                    img.ccdsum = <<args.binning[1], " ", args.binning[3]>> => Matches(image_query, img)

\* A stage is run with the image query of --binning 2x2.
C10_Witness ==
    /\ pc = "running"
    /\ args.binning = <<"2", "x", "2">>
    /\ args.filter = ""
    /\ image_query = <<[column |-> "ccdsum", value |-> <<"2", " ", "2">>]>>

=============================================================================
